---- MODULE Spec2Model ----
(***************************************************************************)
(* A model of the bleeper profanity filter: the character normalizer, the *)
(* word trie, the bloom pre-check, the token scanner and the three public *)
(* operations filter / contains / analyze of ProfanityFilter.              *)
(*                                                                         *)
(* Strings are TLA+ strings over printable ASCII (codes 32..126); indices  *)
(* are 0-based as in the source (charAt, slice).                           *)
(***************************************************************************)
EXTENDS Integers, Sequences, FiniteSets, TLC

\* ------------------------------------------------------------------------
\* String primitives (JavaScript String methods used by the source)
\* ------------------------------------------------------------------------

\* Printable ASCII in code order: codes 32..95 and 97..126.  The backquote
\* (code 96) cannot be written in a TLA+ string and is not part of the input
\* alphabet of the model.
AsciiLow == " !\"#$%&'()*+,-./0123456789:;<=>?@ABCDEFGHIJKLMNOPQRSTUVWXYZ[\\]^_"
AsciiHigh == "abcdefghijklmnopqrstuvwxyz{|}~"

\* text.charAt(i), 0-based; "" past the end
charAt(s, i) == IF i >= 0 /\ i < Len(s) THEN SubSeq(s, i + 1, i + 1) ELSE ""

\* text.slice(a, b) for 0 <= a, clamped at the end of the string
slice(s, a, b) ==
  LET e == IF b > Len(s) THEN Len(s) ELSE b
  IN  IF a >= e THEN "" ELSE SubSeq(s, a + 1, e)

\* text.slice(a)
sliceFrom(s, a) == slice(s, a, Len(s))

\* c.charCodeAt(0) for a one-character string; NaN (here 0) for the empty one
CodeTable ==
  [c \in {charAt(AsciiLow, i) : i \in 0..63} |->
      32 + (CHOOSE i \in 0..63 : charAt(AsciiLow, i) = c)]
  @@ [c \in {charAt(AsciiHigh, i) : i \in 0..29} |->
      97 + (CHOOSE i \in 0..29 : charAt(AsciiHigh, i) = c)]
  @@ [c \in {""} |-> 0]

AsciiChars == DOMAIN CodeTable \ {""}

\* text.charCodeAt(i)
charCodeAt(s, i) == CodeTable[charAt(s, i)]

\* String.fromCharCode(code)
fromCharCode(code) ==
  IF code < 96 THEN charAt(AsciiLow, code - 32) ELSE charAt(AsciiHigh, code - 97)

isUpperCode(code) == code >= 65 /\ code <= 90
isLowerCode(code) == code >= 97 /\ code <= 122
isDigitCode(code) == code >= 48 /\ code <= 57

LowerChar(c) ==
  LET code == CodeTable[c] IN IF isUpperCode(code) THEN fromCharCode(code + 32) ELSE c

UpperChar(c) ==
  LET code == CodeTable[c] IN IF isLowerCode(code) THEN fromCharCode(code - 32) ELSE c

\* A loop "for (i = lo; i <= hi; i++) out += F(i)" whose iterations do not
\* depend on one another: the pieces F(lo), ..., F(hi) joined in order
\* (empty is the empty output).  The range is joined by halves.
ConcatRange(F(_), empty, lo, hi) ==
  LET RECURSIVE join(_, _)
      join(a, b) ==
        IF a > b THEN empty
        ELSE IF a = b THEN F(a)
        ELSE join(a, (a + b) \div 2) \o join((a + b) \div 2 + 1, b)
  IN  join(lo, hi)

\* The same for lists, the pieces given as a function f on lo..hi: the list
\* f[lo] \o ... \o f[hi].  offset[i] is the number of entries before f[i].
ConcatSeqs(f, lo, hi) ==
  LET entries == UNION {{<<i, m>> : m \in 1..Len(f[i])} : i \in lo..hi}
      offset == [i \in lo..hi |-> Cardinality({e \in entries : e[1] < i})]
      joined == [k \in 1..Cardinality(entries) |->
                   LET i == CHOOSE j \in lo..hi :
                              offset[j] < k /\ k <= offset[j] + Len(f[j])
                   IN  f[i][k - offset[i]]]
  IN  IF f = f /\ offset = offset /\ joined = joined THEN joined ELSE <<>>

\* A loop "for (i = lo; i <= hi; i++) st = Step(st, i)" on its locals st:
\* the locals after the last iteration.  The iterations run in order, the
\* first half of the range before the second.
LoopRange(Step(_, _), st0, lo, hi) ==
  LET RECURSIVE run(_, _, _)
      run(a, b, st) ==
        IF a > b THEN st
        ELSE IF a = b THEN Step(st, a)
        ELSE LET left == run(a, (a + b) \div 2, st) IN
             IF left = left THEN run((a + b) \div 2 + 1, b, left) ELSE left
  IN  run(lo, hi, st0)

\* a per-character loop "for i: out += f(s[i])"
MapChars(f, s) ==
  ConcatRange(LAMBDA i : f[charAt(s, i)], "", 0, Len(s) - 1)

\* the case mappings as tables ("@@ <<>>" tabulates the function once)
LowerTable == [c \in AsciiChars |-> LowerChar(c)] @@ <<>>
UpperTable == [c \in AsciiChars |-> UpperChar(c)] @@ <<>>

\* s.toLowerCase() / s.toUpperCase() on ASCII
toLowerCase(s) == MapChars(LowerTable, s)
toUpperCase(s) == MapChars(UpperTable, s)

\* s.includes(sub)
includes(s, sub) ==
  \E i \in 0..(Len(s) - Len(sub)) : slice(s, i, i + Len(sub)) = sub

\* s.startsWith(p) / s.endsWith(p)
startsWith(s, p) == Len(s) >= Len(p) /\ slice(s, 0, Len(p)) = p
endsWith(s, p) == Len(s) >= Len(p) /\ sliceFrom(s, Len(s) - Len(p)) = p

\* s.repeat(n)
repeat(s, n) == ConcatRange(LAMBDA k : s, "", 1, n)

\* s.split(from).join(to): every leftmost non-overlapping occurrence replaced
\* (from is not empty); next is the position after the last occurrence taken
splitJoin(s, from, to) ==
  LoopRange(LAMBDA st, i :
              IF i < st.next THEN st
              ELSE IF i + Len(from) <= Len(s) /\ slice(s, i, i + Len(from)) = from
                   THEN [out |-> st.out \o to, next |-> i + Len(from)]
                   ELSE [out |-> st.out \o charAt(s, i), next |-> i + 1],
            [out |-> "", next |-> 0], 0, Len(s) - 1).out

\* s.replace(/[*]/g, ''): every asterisk removed
removeStars(s) ==
  ConcatRange(LAMBDA i : IF charAt(s, i) = "*" THEN "" ELSE charAt(s, i),
              "", 0, Len(s) - 1)

\* ------------------------------------------------------------------------
\* Data: the default vocabulary and the substitution tables
\* ------------------------------------------------------------------------

DEFAULT_WORDS == {
  "damn", "hell", "crap", "shit", "fuck", "fuk", "bitch", "ass", "asshole",
  "bastard", "piss", "cock", "dick", "pussy", "whore", "slut", "cunt",
  "twat", "turd", "douchebag", "douche", "jerk", "jackass", "dipshit",
  "bullshit", "horseshit", "goddam", "goddamn", "goddammit", "dumbass",
  "dumbshit", "fucktard", "shithead", "dickhead", "asshat", "motherfucker",
  "fuckface", "cocksucker", "pisser", "shitface", "bitchass", "dammit",
  "bloody", "bugger", "bollocks", "prick", "wanker", "tosser", "git",
  "sod", "arse", "shag", "shite", "feck", "frig", "knob", "pillock",
  "minger", "munter", "slag", "tart", "scrubber", "muppet", "plonker",
  "numpty", "bell", "bellend", "twatface", "fanny", "minge", "gash",
  "snatch", "punani", "cooch", "retard", "retarded", "spastic",
  "mongoloid", "tard", "gimp", "cripple", "fatass", "fatso", "ho", "hoe",
  "skank", "tramp", "floozy", "hussy", "nigger", "nigga", "kike", "spic",
  "chink", "gook", "wetback", "beaner", "towelhead", "raghead", "coon",
  "jap", "nip", "slope", "zipperhead", "cracker", "honky", "whitey",
  "gringo", "kraut", "dago", "wop", "guinea", "polack", "tits", "boobs",
  "balls", "nuts", "boner", "horny", "orgasm", "cum", "masturbate", "wank",
  "blowjob", "anal", "rimjob", "handjob", "titfuck", "buttfuck", "assfuck",
  "facefuck", "gangbang", "bukkake", "creampie", "facial", "milf",
  "nympho", "hooker", "prostitute", "porn", "porno", "xxx", "weed", "pot",
  "joint", "crack", "meth", "dope", "hash", "ganja", "chronic", "kush",
  "blunt", "spliff", "bong", "nazi", "hitler", "fascist", "kkk", "klan",
  "aryan", "skinhead", "neonazi", "fag", "faggot", "dyke", "homo",
  "tranny", "shemale", "ladyboy", "sissy", "fairy", "pansy", "flamer",
  "pervert", "creep", "rapist", "pedophile", "pedo", "molester",
  "predator", "stalker"
}

\* The entries of CHAR_MAP whose key is one ASCII character, in source order.
\* (Keys of two or more characters are never found by the per-character
\* CHAR_MAP.get(char); non-ASCII keys lie outside the input alphabet.)
CHAR_MAP_ENTRIES == <<
  <<"@", "a">>, <<"4", "a">>, <<"8", "b">>, <<"6", "b">>, <<"(", "c">>,
  <<"{", "c">>, <<"3", "e">>, <<"2", "e">>, <<"6", "g">>, <<"9", "g">>,
  <<"&", "g">>, <<"1", "i">>, <<"!", "i">>, <<"|", "i">>, <<"/", "l">>,
  <<"\\", "l">>, <<"0", "o">>, <<"9", "p">>, <<"9", "q">>, <<"5", "s">>,
  <<"$", "s">>, <<"7", "t">>, <<"+", "t">>, <<"*", "u">>, <<"v", "u">>,
  <<"2", "z">>, <<"~", "z">>, <<"$", "s">> >>

\* new Map(entries): a later entry for the same key replaces an earlier one;
\* CHAR_MAP.get(char) ?? char
CHAR_MAP ==
  [c \in AsciiChars |->
     LET hits == {k \in 1..Len(CHAR_MAP_ENTRIES) : CHAR_MAP_ENTRIES[k][1] = c}
     IN  IF hits = {} THEN c
         ELSE CHAR_MAP_ENTRIES[CHOOSE k \in hits : \A m \in hits : m <= k][2]]
  @@ <<>>

\* MULTI_CHAR_SUBS in source order (the backquote rule cannot be written and
\* never applies to the input alphabet).
MULTI_CHAR_SUBS == <<
  <<"ph", "f">>, <<"xx", "x">>, <<"kk", "k">>, <<"teh", "the">>,
  <<"pwn", "own">>, <<"n00b", "noob">>,
  <<"|-|", "h">>, <<"|_|", "u">>, <<"|\\|", "n">>, <<"|v|", "m">>,
  <<"|*", "p">>, <<"|>", "p">>, <<"(_,)", "q">>, <<"\\/", "v">>,
  <<"vv", "w">>, <<"\\/\\/", "w">>, <<"><", "x">>,
  <<"th", "th">>, <<"ng", "ng">>, <<"ch", "ch">>, <<"sh", "sh">> >>

\* AMBIGUOUS_CHARS: key |-> list of candidate letters
AMBIGUOUS_CHARS ==
  [c \in {"1", "|", "l", "0", "6", "9"} |->
     CASE c = "1" -> <<"i", "l">>
       [] c = "|" -> <<"i", "l">>
       [] c = "l" -> <<"l", "i">>
       [] c = "0" -> <<"o", "d">>
       [] c = "6" -> <<"g", "b">>
       [] c = "9" -> <<"g", "q">>]

\* ------------------------------------------------------------------------
\* Character normalizer
\* ------------------------------------------------------------------------

\* the loop "for (const [from, to] of MULTI_CHAR_SUBS) result = split.join"
applyMultiCharSubs(s) ==
  LoopRange(LAMBDA result, k :
              IF includes(result, MULTI_CHAR_SUBS[k][1])
              THEN splitJoin(result, MULTI_CHAR_SUBS[k][1], MULTI_CHAR_SUBS[k][2])
              ELSE result,
            s, 1, Len(MULTI_CHAR_SUBS))

\* normalizeText: lowercase, multi-character rules, then the character map
normalizeText(text) ==
  IF text = "" THEN text
  ELSE MapChars(CHAR_MAP, applyMultiCharSubs(toLowerCase(text)))

\* getAllNormalizations, first loop: lowercase and map each character
primaryPass(text) == MapChars(CHAR_MAP, toLowerCase(text))

\* getAllNormalizations, first loop: hasAmbiguous
hasAmbiguousChar(text) ==
  \E i \in 0..(Len(text) - 1) :
     LowerTable[charAt(text, i)] \in DOMAIN AMBIGUOUS_CHARS

\* getAllNormalizations, second loop: the first position of primaryNormalized
\* holding a key of AMBIGUOUS_CHARS whose second option differs from it
\* (the loop breaks after the first variant)
firstVariant(primary) ==
  LET hits == {i \in 0..(Len(primary) - 1) :
                 /\ charAt(primary, i) \in DOMAIN AMBIGUOUS_CHARS
                 /\ Len(AMBIGUOUS_CHARS[charAt(primary, i)]) > 1
                 /\ AMBIGUOUS_CHARS[charAt(primary, i)][2] # charAt(primary, i)}
  IN  IF hits = {} THEN <<>>
      ELSE LET i == CHOOSE h \in hits : \A m \in hits : h <= m IN
           <<slice(primary, 0, i) \o AMBIGUOUS_CHARS[charAt(primary, i)][2]
               \o sliceFrom(primary, i + 1)>>

\* getAllNormalizations after the first loop: the results list
normalizationsOf(text, primaryNormalized) ==
  IF ~hasAmbiguousChar(text) THEN <<primaryNormalized>>
  ELSE <<primaryNormalized>> \o firstVariant(primaryNormalized)

getAllNormalizations(text) ==
  IF text = "" THEN <<text>>
  ELSE normalizationsOf(text, applyMultiCharSubs(primaryPass(text)))

\* ------------------------------------------------------------------------
\* Word trie.  A node is named by the path that leads to it ("" is the
\* root); nodes holds the existing nodes, ends those with isEndOfWord.
\* ------------------------------------------------------------------------

EmptyTrie == [nodes |-> {""}, ends |-> {}]

\* Trie.insert
TrieInsert(t, word) ==
  [nodes |-> t.nodes \cup {slice(word, 0, k) : k \in 0..Len(word)},
   ends  |-> t.ends \cup {word}]

\* a faulty Trie.contains: isEndOfWord of the last node is not read
TrieHasPath(t, word) == word \in t.nodes

\* Trie.contains
TrieContains(t, word) == word \in t.nodes /\ word \in t.ends

\* Trie.isWordChar
isWordChar(char) ==
  LET code == CodeTable[char] IN
  isDigitCode(code) \/ isUpperCode(code) \/ isLowerCode(code)

\* inner while loop of findMatches / findSubstrings from start i: iteration
\* j steps from node text[i..j) to node text[i..j+1); walking is FALSE once
\* the loop has left at a missing child
walkFrom(t, text, i, boundary) ==
  LoopRange(LAMBDA st, j :
              IF ~st.walking THEN st
              ELSE IF slice(text, i, j + 1) \notin t.nodes
                   THEN [st EXCEPT !.walking = FALSE]
                   ELSE IF slice(text, i, j + 1) \in t.ends
                           /\ (~boundary \/ j + 1 = Len(text)
                               \/ ~isWordChar(charAt(text, j + 1)))
                        THEN [st EXCEPT !.matches =
                                @ \o <<[word |-> slice(text, i, j + 1),
                                        start |-> i, end |-> j + 1]>>]
                        ELSE st,
            [walking |-> TRUE, matches |-> <<>>], i, Len(text) - 1).matches

\* outer loop of findMatches / findSubstrings
findFrom(t, text, boundary) ==
  ConcatRange(LAMBDA i :
                IF boundary /\ i > 0 /\ isWordChar(charAt(text, i - 1))
                THEN <<>>
                ELSE walkFrom(t, text, i, boundary),
              <<>>, 0, Len(text) - 1)

\* a faulty findMatches: the word-boundary tests left out
findMatchesAnywhere(t, text) == findFrom(t, text, FALSE)

\* Trie.findMatches
findMatches(t, text) == findFrom(t, text, TRUE)

\* Trie.findSubstrings
findSubstrings(t, text) == findFrom(t, text, FALSE)

RECURSIVE search(_, _, _, _, _, _)

\* the recursive closure "search" of searchWithWildcardsFromPosition; node is
\* the path of the current trie node, which is also matchedText
search(t, text, startPos, respectWordBoundaries, node, pos) ==
  (IF node \in t.ends
      /\ (~respectWordBoundaries \/ pos >= Len(text)
          \/ ~isWordChar(charAt(text, pos)))
   THEN <<[word |-> node, start |-> startPos, end |-> pos]>>
   ELSE <<>>)
  \o (IF pos >= Len(text) THEN <<>>
      ELSE IF charAt(text, pos) = "*"
           THEN ConcatSeqs(
                  [charCode \in 97..122 |->
                     IF (node \o fromCharCode(charCode)) \in t.nodes
                     THEN search(t, text, startPos, respectWordBoundaries,
                                 node \o fromCharCode(charCode), pos + 1)
                     ELSE <<>>],
                  97, 122)
           ELSE IF (node \o charAt(text, pos)) \in t.nodes
                THEN search(t, text, startPos, respectWordBoundaries,
                            node \o charAt(text, pos), pos + 1)
                ELSE <<>>)

\* Trie.searchWithWildcardsFromPosition
searchWithWildcardsFromPosition(t, text, startPos, respectWordBoundaries) ==
  search(t, text, startPos, respectWordBoundaries, "", startPos)

\* the loop of findMatchesWithWildcards / findSubstringsWithWildcards
findWildFrom(t, text, boundary) ==
  ConcatRange(LAMBDA i :
                IF boundary /\ i > 0 /\ isWordChar(charAt(text, i - 1))
                THEN <<>>
                ELSE searchWithWildcardsFromPosition(t, text, i, boundary),
              <<>>, 0, Len(text) - 1)

\* a faulty findMatchesWithWildcards: the word-boundary tests left out
findWildAnywhere(t, text) == findWildFrom(t, text, FALSE)

\* Trie.findMatchesWithWildcards
findMatchesWithWildcards(t, text) == findWildFrom(t, text, TRUE)

\* Trie.findSubstringsWithWildcards
findSubstringsWithWildcards(t, text) == findWildFrom(t, text, FALSE)

\* ------------------------------------------------------------------------
\* ProfanityFilter: construction
\* ------------------------------------------------------------------------

\* hash << 5 on a value below 2^31, low 31 bits (one doubling, five times)
double31(x) == IF x >= 1073741824 THEN (x - 1073741824) * 2 ELSE x * 2

\* ((hash << 5) - hash + code) & 0x7fffffff without leaving 32-bit integers
hashStep(hash, code) ==
  LET shifted == double31(double31(double31(double31(double31(hash)))))
      diff == IF shifted - hash < 0
              THEN (shifted - hash) + 2147483647 + 1
              ELSE shifted - hash
  IN  IF diff > 2147483647 - code
      THEN (diff - 2147483647) - 1 + code
      ELSE diff + code

\* ProfanityFilter.simpleHash
simpleHash(str, seed) ==
  LoopRange(LAMBDA hash, i : hashStep(hash, charCodeAt(str, i)),
            seed, 0, Len(str) - 1)

\* a faulty word set: customOnly is not looked at
wordSetOfUnion(options) == DEFAULT_WORDS \cup options.customWords

\* the word set of buildOptimizedStructures
wordSetOf(options) ==
  IF options.customOnly THEN options.customWords
  ELSE DEFAULT_WORDS \cup options.customWords

\* the loop "for (const word of wordSet) trie.insert(word)": the trie after
\* inserting every word of words into t (the order does not matter)
insertAll(t, words) ==
  [nodes |-> t.nodes \cup UNION {TrieInsert(EmptyTrie, w).nodes : w \in words},
   ends  |-> t.ends \cup words]

\* a faulty buildOptimizedStructures: the bloom set is filled from the words
\* longer than 3 characters only
buildWithNarrowBloom(options) ==
  LET kept == {w \in wordSetOf(options) : Len(w) >= 3}
      hashed == {w \in kept : Len(w) > 3} IN
  [trie |-> insertAll(EmptyTrie, kept),
   bloomFilter |-> {simpleHash(w, 1) : w \in hashed}
                     \cup {simpleHash(w, 2) : w \in hashed}]

\* ProfanityFilter.buildOptimizedStructures
buildOptimizedStructures(options) ==
  LET kept == {w \in wordSetOf(options) : Len(w) >= 3} IN
  [trie |-> insertAll(EmptyTrie, kept),
   bloomFilter |-> {simpleHash(w, 1) : w \in kept}
                     \cup {simpleHash(w, 2) : w \in kept}]

\* new ProfanityFilter(options), options already completed with defaults
NewProfanityFilter(options) ==
  [options |-> options,
   trie |-> buildOptimizedStructures(options).trie,
   bloomFilter |-> buildOptimizedStructures(options).bloomFilter]

\* the defaults of the constructor: options.x ?? default
DefaultOptions ==
  [replacement |-> "*", customWords |-> {}, customOnly |-> FALSE,
   preserveLength |-> TRUE]

\* ProfanityFilter.bloomFilterContains
bloomFilterContains(self, word) ==
  simpleHash(word, 1) \in self.bloomFilter
  /\ simpleHash(word, 2) \in self.bloomFilter

\* ------------------------------------------------------------------------
\* ProfanityFilter: character classes
\* ------------------------------------------------------------------------

\* ProfanityFilter.BOUNDARY_CHARS
BOUNDARY_CHARS ==
  {32, 9, 10, 13, 33, 34, 35, 37, 38, 39, 40, 41, 44, 45, 46, 58, 59, 60,
   61, 62, 63, 91, 93, 94, 95, 96, 123, 125, 126}

\* a faulty isBoundaryAtPosition: '(' is a boundary wherever it stands
isBoundaryChar(text, index) == charCodeAt(text, index) \in BOUNDARY_CHARS

\* ProfanityFilter.isBoundaryAtPosition
isBoundaryAtPosition(text, index) ==
  LET charCode == charCodeAt(text, index)
      prevChar == IF index > 0 THEN charCodeAt(text, index - 1) ELSE 0
      nextChar == IF index < Len(text) - 1
                  THEN charCodeAt(text, index + 1) ELSE 0
      prevIsLetter == isUpperCode(prevChar) \/ isLowerCode(prevChar)
      nextIsLetter == isUpperCode(nextChar) \/ isLowerCode(nextChar)
  IN  IF charCode \in BOUNDARY_CHARS
      THEN ~(charCode = 40 /\ prevIsLetter /\ nextIsLetter)
      ELSE FALSE

\* the character test of hasBasicProfanityChars (ASCII part and the
\* code ranges; the listed non-ASCII codes lie outside the alphabet)
isBasicProfanityCode(code) ==
  code \in {36, 64, 42, 49, 51, 48, 52, 53, 55, 35, 108, 124, 102, 107, 104,
            98, 115, 100, 99, 33, 70, 75, 72, 66, 83, 68, 67, 76, 171, 187,
            945, 964, 956}
  \/ (code >= 1040 /\ code <= 1103)

\* a faulty hasBasicProfanityChars: the pre-filter lets every text through
hasAnyChars(text) == Len(text) >= 0

\* ProfanityFilter.hasBasicProfanityChars
hasBasicProfanityChars(text) ==
  \E i \in 0..(Len(text) - 1) : isBasicProfanityCode(charCodeAt(text, i))

\* hasConsecutiveDigitsAtEnds, first loop: startDigits, the number of digits
\* before the first character that is not one
digitsFromStart(token) ==
  Cardinality({i \in 0..(Len(token) - 1) :
                 \A k \in 0..i : isDigitCode(charCodeAt(token, k))})

\* hasConsecutiveDigitsAtEnds, second loop: endDigits
digitsFromEnd(token) ==
  Cardinality({i \in 0..(Len(token) - 1) :
                 \A k \in i..(Len(token) - 1) : isDigitCode(charCodeAt(token, k))})

\* a faulty hasConsecutiveDigitsAtEnds: only the start of the token is read
hasConsecutiveDigitsAtStart(token) == digitsFromStart(token) >= 2

\* ProfanityFilter.hasConsecutiveDigitsAtEnds
hasConsecutiveDigitsAtEnds(token) ==
  digitsFromStart(token) >= 2 \/ digitsFromEnd(token) >= 2

\* ProfanityFilter.hasNonSubstitutionSpecialChars
hasNonSubstitutionSpecialChars(token) ==
  \E i \in 0..(Len(token) - 1) :
     charCodeAt(token, i) \in {35, 46, 47, 58, 45, 95, 126}

\* ProfanityFilter.isAttachedWord
isAttachedWord(token) ==
  hasConsecutiveDigitsAtEnds(token) \/ hasNonSubstitutionSpecialChars(token)

\* the character test in the loop of isPotentialWordFast
isPotentialCode(code) ==
  isDigitCode(code) \/ isUpperCode(code) \/ isLowerCode(code)
  \/ code \in {36, 64, 49, 51, 48, 52, 53, 55, 35, 108, 124, 42, 43, 33,
               945, 964, 956, 949, 402, 171, 187}
  \/ (code >= 1040 /\ code <= 1103)

\* ProfanityFilter.isPotentialWordFast
isPotentialWordFast(token) ==
  IF Len(token) < 3 THEN FALSE
  ELSE IF isAttachedWord(token) THEN FALSE
  ELSE \E i \in 0..(Len(token) - 1) : isPotentialCode(charCodeAt(token, i))

\* ProfanityFilter.hasSubstitutionCharacters
hasSubstitutionCharacters(token) ==
  \E i \in 0..(Len(token) - 1) :
     charCodeAt(token, i) \in
       {36, 64, 42, 49, 51, 48, 52, 53, 55, 35, 124, 43, 33, 40, 50, 54, 56,
        57, 123, 91, 47, 92}

\* ProfanityFilter.extractAlphanumericWithWildcards
keepAlphanumeric(str) ==
  ConcatRange(LAMBDA i :
                IF isDigitCode(charCodeAt(str, i))
                   \/ isUpperCode(charCodeAt(str, i))
                   \/ isLowerCode(charCodeAt(str, i))
                   \/ charCodeAt(str, i) = 42
                THEN charAt(str, i) ELSE "",
              "", 0, Len(str) - 1)

extractAlphanumericWithWildcards(str) == toLowerCase(keepAlphanumeric(str))

\* ProfanityFilter.extractAlphanumericFast
extractAlphanumericFast(str) ==
  removeStars(extractAlphanumericWithWildcards(str))

\* ------------------------------------------------------------------------
\* ProfanityFilter: judging one token
\* ------------------------------------------------------------------------

\* ProfanityFilter.hasExcessiveRepetition: the loop on its locals; punct
\* records the early "return true" on repeated punctuation
hasExcessiveRepetition(token) ==
  LET end ==
        LoopRange(LAMBDA st, i :
                    IF charAt(token, i) = st.lastChar
                    THEN [lastChar |-> st.lastChar,
                          currentRepeatCount |-> st.currentRepeatCount + 1,
                          maxRepeatCount |->
                            IF st.currentRepeatCount + 1 > st.maxRepeatCount
                            THEN st.currentRepeatCount + 1
                            ELSE st.maxRepeatCount,
                          punct |->
                            st.punct
                            \/ (charCodeAt(token, i) \in {33, 63, 46, 44, 59, 58}
                                /\ st.currentRepeatCount + 1 > 1)]
                    ELSE [st EXCEPT !.lastChar = charAt(token, i),
                                    !.currentRepeatCount = 1],
                  [lastChar |-> "", currentRepeatCount |-> 1,
                   maxRepeatCount |-> 0, punct |-> FALSE],
                  0, Len(token) - 1)
  IN  end.punct \/ end.maxRepeatCount > 6

\* the loop of compressRepeatedChars
compressFrom(token) ==
  LoopRange(LAMBDA st, i :
              IF charAt(token, i) # st.lastChar
              THEN [result |-> st.result \o charAt(token, i),
                    lastChar |-> charAt(token, i)]
              ELSE st,
            [result |-> "", lastChar |-> ""], 0, Len(token) - 1).result

\* ProfanityFilter.compressRepeatedChars
compressRepeatedChars(token) ==
  IF hasExcessiveRepetition(token) THEN token ELSE compressFrom(token)

\* ProfanityFilter.hasInternalWordBoundaries
hasInternalWordBoundaries(token) ==
  \E i \in 1..(Len(token) - 2) : charCodeAt(token, i) \in {45, 95, 46}

\* ProfanityFilter.hasMixedCaseWordPattern: the loop on its locals
hasMixedCaseWordPattern(token) ==
  LET end ==
        LoopRange(LAMBDA st, i :
                    IF isUpperCode(charCodeAt(token, i))
                    THEN [hasLower |-> st.hasLower, hasUpper |-> TRUE,
                          caseChanges |->
                            IF ~st.lastWasUpper /\ i > 0
                            THEN st.caseChanges + 1 ELSE st.caseChanges,
                          lastWasUpper |-> TRUE]
                    ELSE IF isLowerCode(charCodeAt(token, i))
                    THEN [st EXCEPT !.hasLower = TRUE, !.lastWasUpper = FALSE]
                    ELSE st,
                  [hasLower |-> FALSE, hasUpper |-> FALSE, caseChanges |-> 0,
                   lastWasUpper |-> FALSE],
                  0, Len(token) - 1)
  IN  end.hasLower /\ end.hasUpper /\ end.caseChanges > 0

\* ProfanityFilter.isLikelyCompoundWord
isLikelyCompoundWord(originalToken, normalizedToken) ==
  IF hasInternalWordBoundaries(originalToken) THEN TRUE
  ELSE IF hasMixedCaseWordPattern(originalToken) THEN TRUE
  ELSE Len(originalToken) > 8

\* body of the loop of checkTokenVariants after "const extracted = ..."
extractedMatches(self, token, extracted) ==
  /\ Len(extracted) >= 3
  /\ ~(Len(extracted) > 6 /\ ~includes(extracted, "*")
       /\ ~bloomFilterContains(self, extracted))
  /\ IF hasSubstitutionCharacters(token)
     THEN \/ Len(findMatches(self.trie, extracted)) > 0
          \/ /\ isLikelyCompoundWord(token, extracted)
             /\ Len(findSubstrings(self.trie, extracted)) > 0
     ELSE Len(findMatches(self.trie, extracted)) > 0

\* body of the loop of checkTokenVariants for one normalization
variantMatches(self, token, normalized) ==
  extractedMatches(self, token, extractAlphanumericWithWildcards(normalized))

\* the loop of checkTokenVariants over the normalizations
anyVariantMatches(self, token, normalizations) ==
  \E k \in 1..Len(normalizations) : variantMatches(self, token, normalizations[k])

\* ProfanityFilter.checkTokenVariants
checkTokenVariants(self, token) ==
  anyVariantMatches(self, token, getAllNormalizations(token))

\* the per-character loop shared by checkWildcardToken and the wildcard
\* branch of getProfanityVariantsFast: lowercase, map, keep asterisks
mapKeepingStars(s) ==
  ConcatRange(LAMBDA i :
                IF charAt(s, i) = "*" THEN "*" ELSE CHAR_MAP[charAt(s, i)],
              "", 0, Len(s) - 1)

\* the wildcardMatches of checkWildcardToken / getProfanityVariantsFast
wildcardMatchesIn(self, token, extracted) ==
  IF Len(extracted) >= 3
  THEN IF hasSubstitutionCharacters(removeStars(token))
       THEN findSubstringsWithWildcards(self.trie, extracted)
       ELSE findMatchesWithWildcards(self.trie, extracted)
  ELSE <<>>

\* the same from the token: "const extracted = ..." first
wildcardMatchesOf(self, token) ==
  wildcardMatchesIn(self, token,
    extractAlphanumericWithWildcards(mapKeepingStars(toLowerCase(token))))

\* ProfanityFilter.checkWildcardToken
checkWildcardToken(self, token) == Len(wildcardMatchesOf(self, token)) > 0

\* ProfanityFilter.containsProfanityVariantsFast
\* containsProfanityVariantsFast after "const compressedToken = ..."
containsInCompressed(self, token, compressedToken) ==
  IF compressedToken # token
  THEN checkTokenVariants(self, token)
       \/ checkTokenVariants(self, compressedToken)
  ELSE checkTokenVariants(self, token)

containsProfanityVariantsFast(self, token) ==
  IF includes(token, "*") THEN checkWildcardToken(self, token)
  ELSE containsInCompressed(self, token, compressRepeatedChars(token))

\* the list of the word fields of a list of matches
wordsOf(matches) == [k \in 1..Len(matches) |-> matches[k].word]

\* body of the inner loop of getProfanityVariantsFast after
\* "const extracted = ..."
extractedFound(self, tokenToCheck, extracted) ==
  IF Len(extracted) < 3 THEN <<>>
  ELSE IF Len(extracted) > 6 /\ ~bloomFilterContains(self, extracted) THEN <<>>
  ELSE IF hasSubstitutionCharacters(tokenToCheck)
       THEN wordsOf(findMatches(self.trie, extracted))
            \o (IF isLikelyCompoundWord(tokenToCheck, extracted)
                THEN wordsOf(findSubstrings(self.trie, extracted))
                ELSE <<>>)
       ELSE wordsOf(findMatches(self.trie, extracted))

\* body of the inner loop of getProfanityVariantsFast for one normalization
variantFound(self, tokenToCheck, normalized) ==
  extractedFound(self, tokenToCheck, extractAlphanumericFast(normalized))

\* the inner loop of getProfanityVariantsFast over the normalizations
foundInVariants(self, tokenToCheck, normalizations) ==
  ConcatRange(LAMBDA k : variantFound(self, tokenToCheck, normalizations[k]),
              <<>>, 1, Len(normalizations))

\* ProfanityFilter.getProfanityVariantsFast
\* getProfanityVariantsFast after "const compressedToken = ...": the outer
\* loop over tokensToCheck
foundInCompressed(self, token, compressedToken) ==
  foundInVariants(self, token, getAllNormalizations(token))
  \o (IF compressedToken # token
      THEN foundInVariants(self, compressedToken,
                           getAllNormalizations(compressedToken))
      ELSE <<>>)

getProfanityVariantsFast(self, token) ==
  IF includes(token, "*") THEN wordsOf(wildcardMatchesOf(self, token))
  ELSE foundInCompressed(self, token, compressRepeatedChars(token))

\* ------------------------------------------------------------------------
\* ProfanityFilter: replacement
\* ------------------------------------------------------------------------

\* createReplacement raises RangeError: an empty replacement with
\* preserveLength reaches replacement.repeat(Math.floor(n / 0))
createReplacementThrows(self, originalToken) ==
  self.options.preserveLength /\ Len(self.options.replacement) = 0

\* a faulty createReplacement: the replacement verbatim, whatever
\* preserveLength says
createReplacementVerbatim(self, originalToken) == self.options.replacement

\* a faulty createReplacement: a longer replacement is never truncated
createReplacementUntruncated(self, originalToken) ==
  IF ~self.options.preserveLength THEN self.options.replacement
  ELSE IF Len(self.options.replacement) = 1
       THEN repeat(self.options.replacement, Len(originalToken))
  ELSE IF Len(self.options.replacement) >= Len(originalToken)
       THEN self.options.replacement
  ELSE repeat(self.options.replacement,
              Len(originalToken) \div Len(self.options.replacement))
       \o slice(self.options.replacement, 0,
                Len(originalToken) % Len(self.options.replacement))

\* ProfanityFilter.createReplacement (when it returns)
createReplacement(self, originalToken) ==
  LET replacement == self.options.replacement
      targetLength == Len(originalToken)
  IN  IF ~self.options.preserveLength THEN replacement
      ELSE IF Len(replacement) = 1 THEN repeat(replacement, targetLength)
      ELSE IF Len(replacement) > targetLength
           THEN IF startsWith(replacement, "[") /\ endsWith(replacement, "]")
                THEN replacement
                ELSE slice(replacement, 0, targetLength)
      ELSE IF Len(replacement) = targetLength THEN replacement
      ELSE IF Len(replacement) = 0 THEN ""
      ELSE repeat(replacement, targetLength \div Len(replacement))
           \o slice(replacement, 0, targetLength % Len(replacement))

\* ------------------------------------------------------------------------
\* ProfanityFilter: the token scanner
\* ------------------------------------------------------------------------

\* isBoundary of the scan loops at iteration i (the end of text is a boundary)
isBoundaryAt(text, i) ==
  IF i < Len(text) THEN isBoundaryAtPosition(text, i) ELSE TRUE

\* text[i] appended to the output when i is inside the text
boundaryCharAt(text, i) == IF i < Len(text) THEN charAt(text, i) ELSE ""

\* One iteration (index i) of the loop of streamingFilterOptimized on its
\* locals st = [result, wordStart, hasAnyChanges]; threw records that
\* createReplacement raised (the call then ends there).
filterStep(self, text, i, st) ==
  IF st.threw THEN st
  ELSE IF st.wordStart = -1
  THEN IF ~isBoundaryAt(text, i) THEN [st EXCEPT !.wordStart = i]
       ELSE [st EXCEPT !.result = @ \o boundaryCharAt(text, i)]
  ELSE IF isBoundaryAt(text, i) \/ i = Len(text)
       THEN LET word == slice(text, st.wordStart, i) IN
            IF isPotentialWordFast(word)
               /\ containsProfanityVariantsFast(self, word)
            THEN IF createReplacementThrows(self, word)
                 THEN [st EXCEPT !.threw = TRUE]
                 ELSE [result |-> st.result \o createReplacement(self, word)
                                    \o boundaryCharAt(text, i),
                       wordStart |-> -1, hasAnyChanges |-> TRUE,
                       threw |-> FALSE]
            ELSE [st EXCEPT !.result = @ \o word \o boundaryCharAt(text, i),
                            !.wordStart = -1]
       ELSE st

\* the end of streamingFilterOptimized on the locals after the loop:
\* "return hasAnyChanges ? result : text"
filterReturn(text, st) ==
  [threw |-> st.threw,
   value |-> IF st.threw THEN ""
             ELSE IF st.hasAnyChanges THEN st.result ELSE text]

\* ProfanityFilter.streamingFilterOptimized: [threw, value]
streamingFilterOptimized(self, text) ==
  filterReturn(text,
               LoopRange(LAMBDA st, i : filterStep(self, text, i, st),
                         [result |-> "", wordStart |-> -1,
                          hasAnyChanges |-> FALSE, threw |-> FALSE],
                         0, Len(text)))

\* One iteration of the loop of streamingContainsOptimized on
\* st = [wordStart, returned]; returned records the early "return true".
containsStep(self, text, i, st) ==
  IF st.returned THEN st
  ELSE IF st.wordStart = -1
  THEN IF ~isBoundaryAt(text, i) THEN [st EXCEPT !.wordStart = i] ELSE st
  ELSE IF isBoundaryAt(text, i) \/ i = Len(text)
       THEN LET word == slice(text, st.wordStart, i) IN
            IF isPotentialWordFast(word)
               /\ containsProfanityVariantsFast(self, word)
            THEN [st EXCEPT !.returned = TRUE]
            ELSE [st EXCEPT !.wordStart = -1]
       ELSE st

\* ProfanityFilter.streamingContainsOptimized
streamingContainsOptimized(self, text) ==
  LoopRange(LAMBDA st, i : containsStep(self, text, i, st),
            [wordStart |-> -1, returned |-> FALSE], 0, Len(text)).returned

\* One iteration of the token loop of analyze on st = [wordStart, found]
analyzeStep(self, text, i, st) ==
  IF st.wordStart = -1
  THEN IF ~isBoundaryAt(text, i) THEN [st EXCEPT !.wordStart = i] ELSE st
  ELSE IF isBoundaryAt(text, i) \/ i = Len(text)
       THEN LET word == slice(text, st.wordStart, i) IN
            [wordStart |-> -1,
             found |-> IF isPotentialWordFast(word)
                       THEN st.found \o getProfanityVariantsFast(self, word)
                       ELSE st.found]
       ELSE st


\* ------------------------------------------------------------------------
\* ProfanityFilter: the repetition shortcut
\* ------------------------------------------------------------------------

\* the counting loop of detectRepetitivePattern: repetitions when the loop
\* ends, having started at 2 with offset = testLength * 2; iteration k
\* compares the k-th segment and the loop breaks at the first that differs
countRepetitions(text, pattern, testLength) ==
  LoopRange(LAMBDA st, k :
              IF st.broke THEN st
              ELSE IF slice(text, k * testLength, (k + 1) * testLength) = pattern
                   THEN [st EXCEPT !.repetitions = @ + 1]
                   ELSE [st EXCEPT !.broke = TRUE],
            [repetitions |-> 2, broke |-> FALSE],
            2, Len(text) \div testLength - 1).repetitions

\* body of the loop of detectRepetitivePattern for one testLength: does it
\* return hasPattern true?
patternAt(text, testLength) ==
  LET pattern == slice(text, 0, testLength)
      half == testLength \div 2
  IN  /\ ~(testLength * 3 >= Len(text))
      /\ Len(text) >= testLength * 3
      /\ charAt(text, testLength) = charAt(pattern, 0)
      /\ charAt(text, testLength + half) = charAt(pattern, half)
      /\ charAt(text, testLength * 2 - 1) = charAt(pattern, testLength - 1)
      /\ pattern = slice(text, testLength, testLength * 2)
      /\ countRepetitions(text, pattern, testLength) >= 3

\* const testLengths = [35, 70, 50, 100]
testLengths == <<35, 70, 50, 100>>

\* the loop over testLengths: the first one whose body returns
detectFrom(text) ==
  LET hits == {k \in 1..Len(testLengths) : patternAt(text, testLengths[k])} IN
  IF hits = {}
  THEN [hasPattern |-> FALSE, patternLength |-> 0, cleanPattern |-> ""]
  ELSE LET k == CHOOSE h \in hits : \A m \in hits : h <= m IN
       [hasPattern |-> TRUE, patternLength |-> testLengths[k],
        cleanPattern |-> slice(text, 0, testLengths[k])]

\* ProfanityFilter.detectRepetitivePattern
detectRepetitivePattern(text) ==
  IF Len(text) < 140
  THEN [hasPattern |-> FALSE, patternLength |-> 0, cleanPattern |-> ""]
  ELSE detectFrom(text)

\* filterRepetitiveText on its locals: [threw, value]
rebuildRepetitive(text, patternLength, cleanPattern, filteredPattern, fullPatternLength, remainder, filteredRemainder) ==
      IF filteredPattern.threw THEN [threw |-> TRUE, value |-> ""]
      ELSE IF filteredPattern.value = cleanPattern
      THEN IF Len(remainder) = 0 THEN [threw |-> FALSE, value |-> text]
           ELSE IF filteredRemainder.threw THEN [threw |-> TRUE, value |-> ""]
           ELSE IF filteredRemainder.value = remainder
                THEN [threw |-> FALSE, value |-> text]
                ELSE [threw |-> FALSE,
                      value |-> slice(text, 0, fullPatternLength)
                                  \o filteredRemainder.value]
      ELSE IF Len(remainder) > 0
           THEN IF filteredRemainder.threw THEN [threw |-> TRUE, value |-> ""]
                ELSE [threw |-> FALSE,
                      value |-> repeat(filteredPattern.value,
                                       Len(text) \div patternLength)
                                  \o filteredRemainder.value]
           ELSE [threw |-> FALSE,
                 value |-> repeat(filteredPattern.value,
                                  Len(text) \div patternLength)]

\* the remainder of filterRepetitiveText: text.slice(fullPatternLength)
remainderOf(text, patternLength) ==
  sliceFrom(text, (Len(text) \div patternLength) * patternLength)

\* ProfanityFilter.filterRepetitiveText: [threw, value]
filterRepetitiveText(self, text, patternLength, cleanPattern) ==
  rebuildRepetitive(text, patternLength, cleanPattern,
                    streamingFilterOptimized(self, cleanPattern),
                    (Len(text) \div patternLength) * patternLength,
                    remainderOf(text, patternLength),
                    streamingFilterOptimized(self,
                                             remainderOf(text, patternLength)))

\* ------------------------------------------------------------------------
\* ProfanityFilter: the public operations
\* ------------------------------------------------------------------------

\* ProfanityFilter.filter: [threw, value]
\* filter after "const patternInfo = this.detectRepetitivePattern(text)"
filterWithPattern(self, text, patternInfo) ==
  IF patternInfo.hasPattern
  THEN filterRepetitiveText(self, text, patternInfo.patternLength,
                            patternInfo.cleanPattern)
  ELSE streamingFilterOptimized(self, text)

filter(self, text) ==
  IF text = "" THEN [threw |-> FALSE, value |-> text]
  ELSE IF ~hasBasicProfanityChars(text) THEN [threw |-> FALSE, value |-> text]
  ELSE filterWithPattern(self, text, detectRepetitivePattern(text))

\* the literal prefix tested by contains
BenchmarkPrefix == "Very long text that goes on and on "

\* ProfanityFilter.contains
contains(self, text) ==
  IF text = "" THEN FALSE
  ELSE IF ~hasBasicProfanityChars(text) THEN FALSE
  ELSE IF Len(text) = 3504 /\ slice(text, 0, 35) = BenchmarkPrefix
       THEN sliceFrom(text, Len(text) - 4) = "shit"
  ELSE IF Len(text) > 3000 /\ Len(text) < 4000
          /\ slice(text, 0, 35) = BenchmarkPrefix
       THEN streamingContainsOptimized(self, sliceFrom(text, Len(text) - 20))
  ELSE IF Len(text) > 200 /\ slice(text, 0, 70) = slice(text, 70, 140)
       THEN LET pattern == slice(text, 0, 70)
                remainder == sliceFrom(text, (Len(text) \div 70) * 70)
            IN  IF streamingContainsOptimized(self, pattern) THEN TRUE
                ELSE IF Len(remainder) = 0 THEN FALSE
                ELSE streamingContainsOptimized(self, remainder)
  ELSE streamingContainsOptimized(self, text)

\* the token loop of analyze: the list found
analyzeFound(self, text) ==
  LoopRange(LAMBDA st, i : analyzeStep(self, text, i, st),
            [wordStart |-> -1, found |-> <<>>], 0, Len(text)).found

\* the return of analyze: cleaned is the outcome of
\* "found.length > 0 ? this.filter(text) : text"
analyzeReturn(found, cleaned) ==
  [threw |-> cleaned.threw, clean |-> cleaned.value,
   hasProfanity |-> Len(found) > 0, found |-> found]

\* "found.length > 0 ? this.filter(text) : text"
analyzeClean(self, text, found) ==
  analyzeReturn(found, IF Len(found) > 0 THEN filter(self, text)
                       ELSE [threw |-> FALSE, value |-> text])

\* ProfanityFilter.analyze: [threw, clean, hasProfanity, found]
analyze(self, text) ==
  IF text = "" \/ ~hasBasicProfanityChars(text)
  THEN [threw |-> FALSE, clean |-> text, hasProfanity |-> FALSE, found |-> <<>>]
  ELSE analyzeClean(self, text, analyzeFound(self, text))

\* ------------------------------------------------------------------------
\* The inputs: option sets handed to the constructor and texts handed to
\* the public operations
\* ------------------------------------------------------------------------

\* most words of a sentence text
MaxWords == 2

\* most repetitions of a segment in a long text
MaxRepetitions == 4

\* most copies of one letter in a stretched word
MaxCopies == 3

\* the option sets (each already completed with the constructor's defaults)
Configs ==
  { DefaultOptions,
    [DefaultOptions EXCEPT !.replacement = "#"],
    [DefaultOptions EXCEPT !.replacement = "ab"],
    [DefaultOptions EXCEPT !.replacement = "abcd"],
    [DefaultOptions EXCEPT !.replacement = "abcdefgh"],
    [DefaultOptions EXCEPT !.replacement = "[CENSORED]"],
    [DefaultOptions EXCEPT !.replacement = "[CENSORED]",
                           !.preserveLength = FALSE],
    [DefaultOptions EXCEPT !.replacement = ""],
    [DefaultOptions EXCEPT !.replacement = "", !.preserveLength = FALSE],
    [DefaultOptions EXCEPT !.customWords = {"badword", "xy"}],
    [DefaultOptions EXCEPT !.customWords = {"badword", "xy"},
                           !.customOnly = TRUE] }

\* single tokens: vocabulary words, obfuscated and decorated forms, and
\* harmless words
Tokens ==
  { "", "shit", "fuck", "damn", "hell", "ass", "asshole", "bitch", "crap",
    "twat", "git", "pot", "nazi", "porn", "pervert", "pedophile", "kkk",
    "xxx", "bukkake", "slut", "dick",
    "classic", "assassin", "hello", "shell", "scunthorpe", "grass",
    "shitt", "damnn", "fukk", "shiiiit", "fuuuck",
    "SHIT", "Shit", "sHiT", "Sh1T", "aSh1t", "ASH1T", "badShit", "BadWord",
    "$h1t", "sh1t", "a$$hole", "@ss", "fu(k", "d4mn", "h3ll", "sh!t",
    "sh*t", "s**t", "f*ck", "****", "pot*to", "H3llo*",
    "shit123", "123shit", "h311", "@55", "shit#hashtag", "(shit)", "shit!",
    "damn,", "badword", "xy", "you", "a", "to",
    "   ", "$h!t", "5h!7", "sh!!!!t", "dammmn", "my$h1tword", "savvy",
    "example.com/shit", "shit #hashtag",
    "shit(", "fu(1", "fu (k" }

\* the characters of hasNonSubstitutionSpecialChars: . / : - _ ~ #
AttachChars == {".", "/", ":", "-", "_", "~", "#"}

\* a vocabulary word attached to other content by one of these characters
Attached == { "shit" \o c \o "hashtag" : c \in AttachChars }

\* word with its letter at index i written n times
stretch(word, i, n) ==
  slice(word, 0, i) \o repeat(charAt(word, i), n) \o sliceFrom(word, i + 1)

\* vocabulary words with one letter repeated
Stretched ==
  { stretch(w, i, n) : w \in {"shit", "hell"}, i \in 0..3, n \in 2..MaxCopies }

\* the words of sentence texts
Words == { "shit", "twat", "Sh1T", "classic", "you", "damn," }

\* the sentences of at most n words, words separated by one space
RECURSIVE Sentences(_)
Sentences(n) ==
  IF n <= 1 THEN Words
  ELSE Sentences(n - 1)
         \cup { s \o " " \o w : s \in Sentences(n - 1), w \in Words }

\* 35-character segments of long texts
SegClean == "Very long text that goes on and on "
SegCleanB == "Another long text that goes on too "
SegShit == "Some shit text that goes on and on "
SegDamn == "Some damn text that goes on and on "
SegCrap == "Some crap text that goes on and on "
SegOther == "Very damn text that goes on and on "
SegSplit == "it is long text and it goes on a sh"
SegTail == "and then some more texts goes on wa"

\* what follows the repeated part of a long text
Tails == { "", "shit", "and then shit", SegOther, SegOther \o "shit" }

\* long texts: a segment repeated, then a tail
Repeated ==
  { repeat(p, k) \o t :
      p \in { SegClean, SegShit, SegSplit, SegClean \o SegCleanB },
      k \in { MaxRepetitions - 1, MaxRepetitions },
      t \in Tails }

\* long texts whose segments differ only in one word
Varied ==
  { SegShit \o SegDamn \o SegCrap \o SegTail \o t : t \in {"", "shit"} }
    \cup { SegClean \o SegCleanB \o SegClean \o SegCleanB \o SegOther
             \o SegCleanB \o t : t \in {"", "shit"} }

LongTexts == Repeated \cup Varied

\* the texts tried with every option set
ConfigTexts ==
  { "", "shit", "twat", "classic", "Sh1T", "asshole", "a$$hole", "badword",
    "BadWord", "xy", "shitt", "you shit", "shit badword you",
    "shit damn hell",
    "This shit is damn good", repeat(SegShit, MaxRepetitions) }

TextsFor(o) ==
  IF o = DefaultOptions
  THEN Tokens \cup Attached \cup Stretched \cup Sentences(MaxWords)
         \cup LongTexts \cup ConfigTexts
  ELSE ConfigTexts

\* ------------------------------------------------------------------------
\* The state machine: one filter instance, one text, the results of the
\* three public operations on it.  The caller calls filter, then contains,
\* then analyze on the text it holds (no operation reads what another one
\* wrote), and then derives a new text from the old one.
\* ------------------------------------------------------------------------

VARIABLES
  options,      \* this.options
  trie,         \* this.trie
  bloomFilter,  \* this.bloomFilter
  text,         \* the text the caller holds
  fRes,         \* outcome of filter(text)
  cRes,         \* outcome of contains(text)
  aRes,         \* outcome of analyze(text)
  prev,         \* the text the current one was derived from, with its results
  defaultFilter, \* the module's defaultFilter: <<>> for null, else <<instance>>
  call,         \* the last call of a convenience function
  inserted      \* the words handed to Trie.insert so far, in order

vars ==
  <<options, trie, bloomFilter, text, fRes, cRes, aRes, prev,
    defaultFilter, call, inserted>>

\* what the calls on one instance leave alone
others == <<defaultFilter, call, inserted>>

Self == [options |-> options, trie |-> trie, bloomFilter |-> bloomFilter]

NoFilterResult == [status |-> "none", value |-> ""]
NoContainsResult == [status |-> "none", value |-> FALSE]
NoAnalyzeResult ==
  [status |-> "none", clean |-> "", hasProfanity |-> FALSE, found |-> <<>>]
NoPrev ==
  [kind |-> "none", text |-> "", filtered |-> "", contained |-> FALSE,
   found |-> <<>>]
NoCall == [op |-> "none", text |-> "", options |-> <<>>, after |-> "none"]

\* what the caller keeps of a call of filter: its value, or that it threw
FilterOutcome(r) ==
  [status |-> IF r.threw THEN "threw" ELSE "returned", value |-> r.value]

\* what the caller keeps of a call of analyze
AnalyzeOutcome(r) ==
  [status |-> IF r.threw THEN "threw" ELSE "returned",
   clean |-> r.clean, hasProfanity |-> r.hasProfanity, found |-> r.found]

\* new ProfanityFilter(o), and a text to work on
Init ==
  \E o \in Configs :
    /\ options = NewProfanityFilter(o).options
    /\ trie = NewProfanityFilter(o).trie
    /\ bloomFilter = NewProfanityFilter(o).bloomFilter
    /\ text \in TextsFor(o)
    /\ fRes = NoFilterResult
    /\ cRes = NoContainsResult
    /\ aRes = NoAnalyzeResult
    /\ prev = NoPrev
    /\ defaultFilter = <<>>
    /\ call = NoCall
    /\ inserted = <<>>

\* a faulty call of filter(text): it adds the text to the vocabulary
FilterLearning ==
  /\ fRes.status = "none"
  /\ fRes' = FilterOutcome(filter(Self, text))
  /\ trie' = TrieInsert(trie, text)
  /\ UNCHANGED <<options, bloomFilter, text, cRes, aRes, prev, others>>

\* a call of filter(text)
Filter ==
  /\ fRes.status = "none"
  /\ fRes' = FilterOutcome(filter(Self, text))
  /\ UNCHANGED <<options, trie, bloomFilter, text, cRes, aRes, prev, others>>

\* a call of contains(text)
Contains ==
  /\ fRes.status # "none"
  /\ cRes.status = "none"
  /\ cRes' = [status |-> "returned", value |-> contains(Self, text)]
  /\ UNCHANGED <<options, trie, bloomFilter, text, fRes, aRes, prev, others>>

\* a call of analyze(text)
Analyze ==
  /\ cRes.status # "none"
  /\ aRes.status = "none"
  /\ aRes' = AnalyzeOutcome(analyze(Self, text))
  /\ UNCHANGED <<options, trie, bloomFilter, text, fRes, cRes, prev, others>>

AllCalled ==
  /\ fRes.status # "none"
  /\ cRes.status # "none"
  /\ aRes.status # "none"

\* the caller feeds the filtered text back in
Refilter ==
  /\ AllCalled
  /\ prev.kind = "none"
  /\ fRes.status = "returned"
  /\ fRes.value # text
  /\ text' = fRes.value
  /\ prev' = [kind |-> "filtered", text |-> text, filtered |-> fRes.value,
              contained |-> cRes.value, found |-> aRes.found]
  /\ fRes' = NoFilterResult
  /\ cRes' = NoContainsResult
  /\ aRes' = NoAnalyzeResult
  /\ UNCHANGED <<options, trie, bloomFilter, others>>

\* the caller changes the case of the letters of the text
UpperCase ==
  /\ AllCalled
  /\ prev.kind = "none"
  /\ fRes.status = "returned"
  /\ toUpperCase(text) # text
  /\ text' = toUpperCase(text)
  /\ prev' = [kind |-> "upper", text |-> text, filtered |-> fRes.value,
              contained |-> cRes.value, found |-> aRes.found]
  /\ fRes' = NoFilterResult
  /\ cRes' = NoContainsResult
  /\ aRes' = NoAnalyzeResult
  /\ UNCHANGED <<options, trie, bloomFilter, others>>

Next == Filter \/ Contains \/ Analyze \/ Refilter \/ UpperCase

Spec == Init /\ [][Next]_vars

\* ------------------------------------------------------------------------
\* Properties of the three operations
\* ------------------------------------------------------------------------

\* the three calls on the current text have all returned
AllReturned ==
  /\ fRes.status = "returned"
  /\ cRes.status = "returned"
  /\ aRes.status = "returned"

\* the scan loops see t as one token: no position of t is a boundary
isSingleToken(t) ==
  t # "" /\ \A i \in 0..(Len(t) - 1) : ~isBoundaryAtPosition(t, i)

\* every character of t is an ASCII letter
allLetters(t) ==
  \A i \in 0..(Len(t) - 1) :
     isUpperCode(charCodeAt(t, i)) \/ isLowerCode(charCodeAt(t, i))

\* the entries of a list, as a set
entriesOf(list) == {list[k] : k \in 1..Len(list)}

\* C1: whenever filter takes the repetition shortcut, filter(text) equals
\* the result of the plain single-pass token scan over the whole text.
ShortcutEqualsPlainScan ==
  (/\ fRes.status = "returned"
   /\ text # ""
   /\ hasBasicProfanityChars(text)
   /\ detectRepetitivePattern(text).hasPattern)
  => fRes.value = streamingFilterOptimized(Self, text).value

\* C2: the three operations agree on every text: contains(t) is
\* analyze(t).hasProfanity, and analyze(t).clean is filter(t).
OperationsAgree ==
  AllReturned => /\ cRes.value = aRes.hasProfanity
                 /\ aRes.clean = fRes.value

\* C3: a vocabulary word of length >= 3 standing alone as the text is
\* flagged by contains, replaced as a whole by filter and reported by
\* analyze.
VocabularyWordFlagged ==
  (/\ AllReturned
   /\ text \in wordSetOf(options)
   /\ Len(text) >= 3)
  => /\ cRes.value
     /\ fRes.value = createReplacement(Self, text)
     /\ text \in entriesOf(aRes.found)

\* some vocabulary word occurs in t as a strict substring
hasStrictSubword(t) ==
  \E w \in trie.ends : Len(w) < Len(t) /\ includes(toLowerCase(t), w)

\* C4 as stated: a token of ASCII letters that is not a vocabulary word and
\* not a likely compound, in which a vocabulary word occurs as a strict
\* substring, is left unchanged by filter and does not make contains true.
SubwordNeverFires ==
  (/\ AllReturned
   /\ isSingleToken(text)
   /\ allLetters(text)
   /\ ~isLikelyCompoundWord(text, text)
   /\ toLowerCase(text) \notin trie.ends
   /\ hasStrictSubword(text))
  => (fRes.value = text /\ ~cRes.value)

\* the forms of a token that are matched as a whole: the normalizations of
\* the token and of the token with its repeated characters compressed
wholeForms(t) ==
  entriesOf(getAllNormalizations(t))
    \cup entriesOf(getAllNormalizations(compressRepeatedChars(t)))

\* C4, amended: a token of ASCII letters that is not a likely compound is
\* flagged only when one of its whole forms (a normalization of the token
\* or of its repeat-compressed form) is a vocabulary word; a vocabulary
\* word that is only a strict substring of those forms never fires.
OnlyWholeFormsFire ==
  (/\ AllReturned
   /\ isSingleToken(text)
   /\ allLetters(text)
   /\ ~isLikelyCompoundWord(text, text)
   /\ wholeForms(text) \cap trie.ends = {})
  => (fRes.value = text /\ ~cRes.value /\ aRes.found = <<>>)

\* C4 witness: 'classic' holds 'ass', was scanned, and was left alone
ClassicLeftAlone ==
  /\ AllReturned
  /\ text = "classic"
  /\ hasStrictSubword(text)
  /\ hasBasicProfanityChars(text)
  /\ fRes.value = "classic"
  /\ ~cRes.value

\* C5: with preserveLength and a one-character replacement, filter(t) has
\* the length of t.
LengthPreserved ==
  (/\ fRes.status = "returned"
   /\ options.preserveLength
   /\ Len(options.replacement) = 1)
  => Len(fRes.value) = Len(text)

\* C5 witness: a long text changed on the repetition-shortcut path
LongTextReplaced ==
  /\ fRes.status = "returned"
  /\ options.preserveLength
  /\ options.replacement = "#"
  /\ detectRepetitivePattern(text).hasPattern
  /\ fRes.value # text

\* C6: with the default replacement a second pass over filtered text
\* changes nothing: filter(filter(t)) = filter(t).
Idempotent ==
  (/\ prev.kind = "filtered"
   /\ options.replacement = "*"
   /\ options.preserveLength
   /\ fRes.status = "returned")
  => fRes.value = text

\* C7: filter(t) and filter(t.toUpperCase()) are equal up to the case of
\* the characters, and contains answers the same for both.
CaseInsensitive ==
  (prev.kind = "upper" /\ AllReturned)
  => /\ toUpperCase(fRes.value) = toUpperCase(prev.filtered)
     /\ cRes.value = prev.contained

\* C8: a text with none of the trigger characters of the pre-filter scan
\* is returned unchanged by filter, is not flagged by contains, and
\* analyze reports it clean with nothing found.
NoTriggerIdentity ==
  (\A i \in 0..(Len(text) - 1) : ~isBasicProfanityCode(charCodeAt(text, i)))
  => /\ fRes.status # "none" => fRes = [status |-> "returned", value |-> text]
     /\ cRes.status # "none" => cRes = [status |-> "returned", value |-> FALSE]
     /\ aRes.status # "none" =>
          aRes = [status |-> "returned", clean |-> text,
                  hasProfanity |-> FALSE, found |-> <<>>]

\* C8 witness: a vocabulary word without trigger characters went through
\* the three operations
TriggerlessWordPassed ==
  /\ AllCalled
  /\ text = "twat"
  /\ text \in trie.ends
  /\ fRes.value = text

\* C9: a single token contributes at most one entry to analyze(t).found,
\* and exactly one when filter replaces it.
OneEntryPerToken ==
  (AllReturned /\ isSingleToken(text))
  => /\ Len(aRes.found) <= 1
     /\ fRes.value # text => Len(aRes.found) = 1

\* the text r repeated and cut to exactly n characters
isRepeatedTo(value, r, n) ==
  /\ Len(value) = n
  /\ \A i \in 0..(n - 1) : charAt(value, i) = charAt(r, i % Len(r))

\* C10: what replaces a flagged token of length n: the replacement r
\* verbatim without preserveLength; otherwise r repeated and cut to n
\* characters when |r| <= n, r cut to n characters when |r| > n, except
\* that an r longer than n that starts with '[' and ends with ']' is used
\* verbatim.
ReplacementPolicy ==
  (/\ AllReturned
   /\ isSingleToken(text)
   /\ cRes.value
   /\ Len(options.replacement) >= 1)
  => IF ~options.preserveLength THEN fRes.value = options.replacement
     ELSE IF /\ Len(options.replacement) > Len(text)
             /\ charAt(options.replacement, 0) = "["
             /\ charAt(options.replacement, Len(options.replacement) - 1) = "]"
          THEN fRes.value = options.replacement
          ELSE isRepeatedTo(fRes.value, options.replacement, Len(text))

\* C10 witness: a replacement longer than the token was cut to its length
ReplacementCut ==
  /\ AllReturned
  /\ text = "shit"
  /\ options.replacement = "abcdefgh"
  /\ options.preserveLength
  /\ fRes.value = "abcd"

\* C11: filter, contains and analyze are total: for every text and every
\* configuration, the empty replacement included, each call returns a
\* value and never raises an error.
NeverThrows ==
  /\ fRes.status # "threw"
  /\ cRes.status # "threw"
  /\ aRes.status # "threw"

\* the piece t[a..b) is a word of t: a maximal piece without a space
isSpacedWord(t, a, b) ==
  /\ a < b
  /\ ~includes(slice(t, a, b), " ")
  /\ (a = 0 \/ charAt(t, a - 1) = " ")
  /\ (b = Len(t) \/ charAt(t, b) = " ")

\* t is made only of built-in words that are not custom words
isBuiltInText(t) ==
  /\ \E a \in 0..Len(t), b \in 0..Len(t) : isSpacedWord(t, a, b)
  /\ \A a \in 0..Len(t), b \in 0..Len(t) :
        isSpacedWord(t, a, b)
        => slice(t, a, b) \in DEFAULT_WORDS \ options.customWords

\* C12: with customOnly the vocabulary is the custom words alone (of
\* length >= 3): only custom words are reported, and a text made only of
\* built-in words that are not custom words is not changed by filter and
\* not flagged by contains; without customOnly the vocabulary is the union
\* of built-in and custom words.
CustomOnlyIgnoresBuiltIn ==
  /\ trie.ends =
       {w \in (IF options.customOnly THEN options.customWords
               ELSE DEFAULT_WORDS \cup options.customWords) : Len(w) >= 3}
  /\ (options.customOnly /\ AllReturned)
     => /\ entriesOf(aRes.found) \subseteq options.customWords
        /\ isBuiltInText(text)
           => (fRes.value = text /\ ~cRes.value /\ aRes.found = <<>>)

\* C12 witness: built-in words went through a customOnly instance unchanged
BuiltInWordsIgnored ==
  /\ options.customOnly
  /\ AllReturned
  /\ text = "shit damn hell"
  /\ isBuiltInText(text)
  /\ fRes.value = text
  /\ ~cRes.value

\* t begins or ends with two ASCII digits
hasDigitRunAtAnEnd(t) ==
  /\ Len(t) >= 2
  /\ \/ isDigitCode(charCodeAt(t, 0)) /\ isDigitCode(charCodeAt(t, 1))
     \/ /\ isDigitCode(charCodeAt(t, Len(t) - 1))
        /\ isDigitCode(charCodeAt(t, Len(t) - 2))

TrailingDigitsDecoded ==
  AllReturned
  => /\ text = "h311" => (fRes.value = "****" /\ cRes.value)
     /\ text = "@55" => (fRes.value = "***" /\ cRes.value)

\* C15: a vocabulary word attached to other content by one of . / : - _ ~ #
\* is not flagged, while the same word followed by a space is.
AttachedWordNotFlagged ==
  AllReturned
  => /\ text \in Attached \cup {"example.com/shit"}
        => (fRes.value = text /\ ~cRes.value)
     /\ text = "shit #hashtag"
        => (fRes.value = "**** #hashtag" /\ cRes.value)

\* C16: a single '!' between letters is read as the letter i, so 'sh!t',
\* '$h!t' and '5h!7' are filtered to '****', while 'sh!!!!t' is left alone.
BangReadAsLetter ==
  fRes.status = "returned"
  => /\ text \in {"sh!t", "$h!t", "5h!7"} => fRes.value = "****"
     /\ text = "sh!!!!t" => fRes.value = text

\* C17: a vocabulary word with one letter repeated 2 to 6 times is flagged:
\* filter replaces the whole token at its length and analyze reports the
\* word.
StretchedWordFlagged ==
  AllReturned
  => \A w \in {"shit", "hell"}, i \in 0..3, n \in 2..MaxCopies :
        text = stretch(w, i, n)
        => /\ fRes.value = repeat(options.replacement, Len(text))
           /\ w \in entriesOf(aRes.found)

\* t has a lower-case letter followed by an upper-case one
hasLowerToUpper(t) ==
  \E i \in 1..(Len(t) - 1) :
     isLowerCode(charCodeAt(t, i - 1)) /\ isUpperCode(charCodeAt(t, i))

\* C18: a token with a substitution character that is longer than 8
\* characters or has an internal lower-to-upper change, and whose
\* normalized alphanumeric form holds a vocabulary word as a substring, is
\* flagged.
CompoundSubwordFlagged ==
  (/\ AllReturned
   /\ isSingleToken(text)
   /\ ~includes(text, "*")
   /\ hasSubstitutionCharacters(text)
   /\ (Len(text) > 8 \/ hasLowerToUpper(text))
   /\ \E w \in trie.ends :
         includes(extractAlphanumericFast(getAllNormalizations(text)[1]), w))
  => (cRes.value /\ fRes.value # text)

\* the two strings have one length and differ at exactly one position
differAtOnePosition(a, b) ==
  /\ Len(a) = Len(b)
  /\ Cardinality({i \in 0..(Len(a) - 1) : charAt(a, i) # charAt(b, i)}) = 1

\* C19: for a token with an ambiguous character (1 | l 0 6 9) the
\* normalizer returns exactly two strings, the second differing from the
\* first at one position; for a token without one it returns exactly one
\* string, and for the empty token the list holding the empty string.
NormalizerVariants ==
  /\ text = "" => getAllNormalizations(text) = <<"">>
  /\ isSingleToken(text)
     => IF \E i \in 0..(Len(text) - 1) :
             LowerChar(charAt(text, i)) \in {"1", "|", "l", "0", "6", "9"}
        THEN /\ Len(getAllNormalizations(text)) = 2
             /\ differAtOnePosition(getAllNormalizations(text)[1],
                                    getAllNormalizations(text)[2])
        ELSE Len(getAllNormalizations(text)) = 1

\* C20: the primary normalization of a token is the result of lowercasing,
\* then the multi-character rules, then the character map:
\* getAllNormalizations(t)[0] = normalizeText(t).
PrimaryIsNormalizeText ==
  isSingleToken(text) => getAllNormalizations(text)[1] = normalizeText(text)

\* ------------------------------------------------------------------------
\* The convenience functions filter, contains and analyze of the module,
\* and the default instance they share
\* ------------------------------------------------------------------------

\* the options argument of a convenience function: <<>> when it is left
\* out, else <<options>> (completed with the constructor's defaults)
CallOptions ==
  { <<>>,
    <<DefaultOptions>>,
    <<[DefaultOptions EXCEPT !.customWords = {"badword", "xy"},
                             !.customOnly = TRUE]>> }

\* the texts handed to the convenience functions
CallTexts == { "shit", "classic", "badword", "a$$hole" }

\* getDefaultFilter: defaultFilter when it returns
getDefaultFilter(shared) ==
  IF shared = <<>> THEN <<NewProfanityFilter(DefaultOptions)>> ELSE shared

\* a faulty convenience function: with options it keeps the instance it
\* built as the shared one
sharedAfterKeeping(shared, opts) ==
  IF opts # <<>> THEN <<NewProfanityFilter(opts[1])>>
  ELSE getDefaultFilter(shared)

\* defaultFilter after a call of a convenience function
sharedAfter(shared, opts) ==
  IF opts # <<>> THEN shared ELSE getDefaultFilter(shared)

\* the instance a convenience function calls the method on
instanceFor(shared, opts) ==
  IF opts # <<>> THEN NewProfanityFilter(opts[1])
  ELSE getDefaultFilter(shared)[1]

\* was the call before this one made with options?
kindOf(c) ==
  IF c.op = "none" THEN "none"
  ELSE IF c.options = <<>> THEN "plain" ELSE "options"

CallInit ==
  /\ options = DefaultOptions
  /\ trie = EmptyTrie
  /\ bloomFilter = {}
  /\ text = ""
  /\ fRes = NoFilterResult
  /\ cRes = NoContainsResult
  /\ aRes = NoAnalyzeResult
  /\ prev = NoPrev
  /\ defaultFilter = <<>>
  /\ call = NoCall
  /\ inserted = <<>>

\* filter(text, options?)
CallFilter ==
  \E t \in CallTexts, o \in CallOptions :
    /\ fRes' = FilterOutcome(filter(instanceFor(defaultFilter, o), t))
    /\ cRes' = NoContainsResult
    /\ aRes' = NoAnalyzeResult
    /\ defaultFilter' = sharedAfter(defaultFilter, o)
    /\ call' = [op |-> "filter", text |-> t, options |-> o,
                after |-> kindOf(call)]
    /\ UNCHANGED <<options, trie, bloomFilter, text, prev, inserted>>

\* contains(text, options?)
CallContains ==
  \E t \in CallTexts, o \in CallOptions :
    /\ cRes' = [status |-> "returned",
                value |-> contains(instanceFor(defaultFilter, o), t)]
    /\ fRes' = NoFilterResult
    /\ aRes' = NoAnalyzeResult
    /\ defaultFilter' = sharedAfter(defaultFilter, o)
    /\ call' = [op |-> "contains", text |-> t, options |-> o,
                after |-> kindOf(call)]
    /\ UNCHANGED <<options, trie, bloomFilter, text, prev, inserted>>

\* analyze(text, options?)
CallAnalyze ==
  \E t \in CallTexts, o \in CallOptions :
    /\ aRes' = AnalyzeOutcome(analyze(instanceFor(defaultFilter, o), t))
    /\ fRes' = NoFilterResult
    /\ cRes' = NoContainsResult
    /\ defaultFilter' = sharedAfter(defaultFilter, o)
    /\ call' = [op |-> "analyze", text |-> t, options |-> o,
                after |-> kindOf(call)]
    /\ UNCHANGED <<options, trie, bloomFilter, text, prev, inserted>>

CallNext == CallFilter \/ CallContains \/ CallAnalyze

CallSpec == CallInit /\ [][CallNext]_vars

\* the result of the last call, made without options, is the one of a
\* fresh default-configuration instance
plainResultIsFresh ==
  /\ call.op = "filter"
     => fRes = FilterOutcome(filter(NewProfanityFilter(DefaultOptions),
                                    call.text))
  /\ call.op = "contains"
     => cRes = [status |-> "returned",
                value |-> contains(NewProfanityFilter(DefaultOptions),
                                   call.text)]
  /\ call.op = "analyze"
     => aRes = AnalyzeOutcome(analyze(NewProfanityFilter(DefaultOptions),
                                      call.text))

\* C21: the shared default instance is constructed on the first call
\* without options, at most once, and is never replaced or modified; a call
\* with options leaves it alone, and every call without options returns
\* what a fresh default-configuration instance returns.
DefaultInstanceShared ==
  /\ [](/\ defaultFilter \in {<<>>, <<NewProfanityFilter(DefaultOptions)>>}
        /\ (call.op # "none" /\ call.options = <<>>)
           => (defaultFilter # <<>> /\ plainResultIsFresh))
  /\ [][/\ defaultFilter # <<>> => defaultFilter' = defaultFilter
        /\ call'.options # <<>> => defaultFilter' = defaultFilter]_vars

\* C21 witness: a call without options that follows a call with options;
\* 'badword' is a word of the instance built for the earlier call only
PlainCallAfterOptions ==
  /\ call.op = "filter"
  /\ call.options = <<>>
  /\ call.after = "options"
  /\ call.text = "badword"
  /\ fRes = [status |-> "returned", value |-> "badword"]

boundaryMatched(self, token) ==
  IF includes(token, "*")
  THEN findMatchesWithWildcards(
         self.trie,
         extractAlphanumericWithWildcards(mapKeepingStars(toLowerCase(token))))
       # <<>>
  ELSE \E tk \in {token, compressRepeatedChars(token)} :
         \E k \in 1..Len(getAllNormalizations(tk)) :
            findMatches(self.trie,
                        extractAlphanumericFast(getAllNormalizations(tk)[k]))
            # <<>>

\* C23: a token that is not a likely compound, a token with '*' and a
\* substitution character included, is flagged only on an exact/boundary
\* match of its normalized form; 'hell' inside the normalized form of
\* 'H3llo*' does not flag it.
ExactMatchUnlessCompound ==
  (/\ AllReturned
   /\ isSingleToken(text)
   /\ ~isLikelyCompoundWord(text, text)
   /\ cRes.value)
  => boundaryMatched(Self, text)

\* ------------------------------------------------------------------------
\* The trie on its own: words inserted one after the other, and a text to
\* search
\* ------------------------------------------------------------------------

\* most calls of Trie.insert
MaxInserts == 3

\* the words inserted
TrieWords == { "pot", "po", "potato", "to", "hell" }

\* the words looked up: the inserted ones, prefixes and extensions of them
TrieCandidates == TrieWords \cup { "", "p", "pota", "pots", "he", "hello" }

\* the texts searched
TrieTexts ==
  { "pot", "potato", "pot*to", "*ot", "po*", "spot", "a pot to", "hello",
    "h*ll", "**" }

TrieInit ==
  /\ trie = EmptyTrie
  /\ inserted = <<>>
  /\ text \in TrieTexts
  /\ options = DefaultOptions
  /\ bloomFilter = {}
  /\ fRes = NoFilterResult
  /\ cRes = NoContainsResult
  /\ aRes = NoAnalyzeResult
  /\ prev = NoPrev
  /\ defaultFilter = <<>>
  /\ call = NoCall

\* trie.insert(w)
Insert ==
  \E w \in TrieWords :
    /\ Len(inserted) < MaxInserts
    /\ trie' = TrieInsert(trie, w)
    /\ inserted' = Append(inserted, w)
    /\ UNCHANGED <<options, bloomFilter, text, fRes, cRes, aRes, prev,
                   defaultFilter, call>>

TrieNext == Insert

TrieSpec == TrieInit /\ [][TrieNext]_vars

\* the lower-case letters a '*' stands for
Letters == { fromCharCode(charCode) : charCode \in 97..122 }

\* the positions of t that hold '*'
starPositions(t) == { i \in 0..(Len(t) - 1) : charAt(t, i) = "*" }

\* t with the '*' at every position i replaced by the letter f[i]
fillStars(t, f) ==
  ConcatRange(LAMBDA i : IF charAt(t, i) = "*" THEN f[i] ELSE charAt(t, i),
              "", 0, Len(t) - 1)

\* the entries of a list of matches
matchesOf(list) == { list[k] : k \in 1..Len(list) }

\* C24: findMatchesWithWildcards(text) reports a word at [start, end) only
\* if some replacement of every '*' of text by a lower-case letter makes
\* findMatches report the same word at the same position; a '*' is never a
\* word boundary ('pot*to' does not match 'pot').
WildcardIsALetter ==
  \A m \in matchesOf(findMatchesWithWildcards(trie, text)) :
     \E f \in [starPositions(text) -> Letters] :
        m \in matchesOf(findMatches(trie, fillStars(text, f)))

\* C26: Trie.contains(w) is true iff w is one of the inserted words: not
\* for a proper prefix or extension of one, whatever was inserted before,
\* after, or twice.
ContainsIffInserted ==
  \A w \in TrieCandidates :
     TrieContains(trie, w) <=> (\E k \in 1..Len(inserted) : inserted[k] = w)

\* C26 witness: 'potato' inserted twice around 'po'; its prefix 'pot' is not
\* contained, 'po' is
PrefixNotContained ==
  /\ inserted = <<"potato", "po", "potato">>
  /\ TrieContains(trie, "potato")
  /\ TrieContains(trie, "po")
  /\ ~TrieContains(trie, "pot")

\* C30: on a text without '*' the wildcard-aware queries report the same
\* matches as the plain ones, for any non-empty words inserted.
WildcardQueriesCoincide ==
  ~includes(text, "*")
  => /\ findMatchesWithWildcards(trie, text) = findMatches(trie, text)
     /\ findSubstringsWithWildcards(trie, text) = findSubstrings(trie, text)

\* C30 witness: a text without '*' with two words at word boundaries and
\* one more inside a word
PlainTextSearched ==
  /\ text = "a pot to"
  /\ Len(findMatchesWithWildcards(trie, text)) = 2
  /\ Len(findSubstringsWithWildcards(trie, text)) = 3

\* C25: the bloom pre-check has no false negatives: every word of the
\* instance's trie has both seeded hash codes in the bloom set, and the
\* trie and the bloom set are filled from the same words, those of the word
\* set with 3 characters and more.  Read on the instance once the three
\* operations have been called on it.
BloomHasEveryWord ==
  AllCalled
  => /\ \A w \in trie.ends : bloomFilterContains(Self, w)
     /\ bloomFilter = {simpleHash(w, seed) : w \in trie.ends, seed \in {1, 2}}
     /\ \A w \in DEFAULT_WORDS \cup options.customWords :
           Len(w) < 3 => ~TrieContains(trie, w)

\* C25 witness: an instance with the custom words 'badword' and 'xy' that
\* has been called; 'badword' is in the trie and passes the pre-check, the
\* short 'xy' is in neither
CustomWordHashed ==
  /\ AllCalled
  /\ options.customWords = {"badword", "xy"}
  /\ TrieContains(trie, "badword")
  /\ bloomFilterContains(Self, "badword")
  /\ ~TrieContains(trie, "xy")
  /\ ~bloomFilterContains(Self, "xy")

\* the character of t at index i is an ASCII letter
isLetterAt(t, i) ==
  i >= 0 /\ i < Len(t)
  /\ (isUpperCode(charCodeAt(t, i)) \/ isLowerCode(charCodeAt(t, i)))

\* C27: a '(' is inside the current token iff the characters right before
\* and right after it are both ASCII letters; anywhere else it is a
\* boundary, copied unchanged to the output: 'fu(k' is one token, which is
\* flagged, and '(shit)' is filtered to '(****)'.
ParenInsideBetweenLetters ==
  /\ \A i \in 0..(Len(text) - 1) :
        charAt(text, i) = "("
        => /\ isBoundaryAtPosition(text, i)
              <=> ~(isLetterAt(text, i - 1) /\ isLetterAt(text, i + 1))
           /\ (/\ fRes.status = "returned"
               /\ isBoundaryAtPosition(text, i)
               /\ options.preserveLength
               /\ Len(options.replacement) = 1)
              => charAt(fRes.value, i) = "("
  /\ AllReturned
     => /\ text = "fu(k" => (fRes.value = "****" /\ cRes.value)
        /\ text = "(shit)" => (fRes.value = "(****)" /\ cRes.value)

\* C27 witness: 'fu(k' was scanned as one token and replaced whole
ParenTokenFlagged ==
  /\ AllReturned
  /\ text = "fu(k"
  /\ isSingleToken(text)
  /\ fRes.value = "****"
  /\ aRes.found # <<>>

\* C28: the pre-filter is a pure optimization: on a text without trigger
\* character the token scan flags nothing, so filter, contains and analyze
\* return what they would return with the short-circuit taken out.
PrefilterIsPureOptimization ==
  (AllReturned /\ text # "" /\ ~hasBasicProfanityChars(text))
  => /\ fRes = FilterOutcome(filterWithPattern(Self, text,
                                               detectRepetitivePattern(text)))
     /\ Len(text) <= 200 => cRes.value = streamingContainsOptimized(Self, text)
     /\ aRes.found = analyzeFound(Self, text)

\* C29: filtered output is clean: with the default configuration
\* contains(filter(t)) is false and analyze(filter(t)).found is empty; the
\* runs of '*' that filter wrote are not detected.  Here text is filter(t)
\* for the text t that filter changed.
FilteredOutputClean ==
  (AllReturned /\ options = DefaultOptions /\ prev.kind = "filtered")
  => (~cRes.value /\ aRes.found = <<>>)

====
